---- MODULE Spec2Model ----
(***************************************************************************)
(* The order book engine of Sid972/midproject: the OrderBook store         *)
(* (src/OrderBook.cpp), its time cursor, insertOrder and matchAsksToBids.  *)
(*                                                                         *)
(* Doubles are modelled by integers.  A timestamp string                   *)
(* "YYYY/MM/DD HH:MM:SS.ffffff" is modelled by the tuple                   *)
(* <<date, minute, second>>, compared lexicographically as std::string     *)
(* compares; the empty string is <<>>.                                     *)
(***************************************************************************)
EXTENDS Integers, Sequences, FiniteSets, Bags, TLC

VARIABLES
    orders,     \* OrderBook::orders, the stored records in storage order
    loaded,     \* history: the bag of every record handed to the store so far
    csvTimes,   \* the timestamps of the lines of 20200317.csv and 20200601.csv
    pc,         \* "idle", or "matched" while a caller holds a matchAsksToBids result
    run,        \* the observed matchAsksToBids call: arguments, working vectors, result
    wallet,     \* Wallet::currencies, the balance of every currency that has a key
    currentTime, \* MerkelMain::currentTime
    said,       \* the line enterAsk or enterBid printed last
    settled,    \* history: for each user order, the total amount processSale was given for it
    ticks       \* history: the number of gotoNextTimeframe calls so far

vars == <<orders, loaded, csvTimes, pc, run, wallet, currentTime, said, settled, ticks>>

cli == <<wallet, currentTime, said, settled, ticks>>

(***************************************************************************)
(* Bounds of the model.                                                    *)
(***************************************************************************)
MaxBook == 3        \* Spec: insertOrder is explored while the store holds fewer records
MaxOrders == 4      \* SpecMatch, SpecTag: the same, for the matching specifications
MaxLines == 1       \* lines read from each of the two CSV files
MaxTicks == 3       \* SpecSim: gotoNextTimeframe is explored this many times

(***************************************************************************)
(* Input values.                                                           *)
(***************************************************************************)
PriceLo == 100
PriceHi == 105
Prices == {PriceLo, PriceHi}
Amounts == {1, 2}
Products == {"ETH/BTC", "BTC/USDT"}
Times == {<<1, 1, 1>>, <<1, 1, 2>>, <<2, 1, 1>>}
T1 == <<1, 1, 1>>
EmptyString == <<>>

(***************************************************************************)
(* std::string operator< and operator> on timestamps.                      *)
(***************************************************************************)
RECURSIVE StrLess(_, _)
StrLess(a, b) ==
    IF Len(b) = 0 THEN FALSE
    ELSE IF Len(a) = 0 THEN TRUE
    ELSE IF Head(a) < Head(b) THEN TRUE
    ELSE IF Head(a) > Head(b) THEN FALSE
    ELSE StrLess(Tail(a), Tail(b))

StrGreater(a, b) == StrLess(b, a)

(***************************************************************************)
(* OrderBookEntry comparators.                                             *)
(***************************************************************************)
compareByTimestamp(e1, e2) == StrLess(e1.timestamp, e2.timestamp)
compareByPriceAsc(e1, e2) == e1.price < e2.price
compareByPriceDesc(e1, e2) == e1.price > e2.price

(***************************************************************************)
(* std::sort: the result is a permutation of the input in which no element *)
(* precedes one it is greater than; the order of equivalent elements is    *)
(* unspecified, so every such permutation is a possible outcome.  A        *)
(* permutation is given by its index map q: result[i] = s[q[i]].           *)
(***************************************************************************)
Permute(s, q) == [i \in 1..Len(s) |-> s[q[i]]]

SortPermsByTimestamp(s) ==
    { q \in Permutations(1..Len(s)) :
        \A i \in 1..(Len(s) - 1) : ~compareByTimestamp(s[q[i + 1]], s[q[i]]) }

\* The sort of line 403 left out: the asks stay in the order getOrders gave.
SortPermsStoredOrder(s) == { [i \in 1..Len(s) |-> i] }

SortPermsByPriceAsc(s) ==
    { q \in Permutations(1..Len(s)) :
        \A i \in 1..(Len(s) - 1) : ~compareByPriceAsc(s[q[i + 1]], s[q[i]]) }

SortPermsByPriceDesc(s) ==
    { q \in Permutations(1..Len(s)) :
        \A i \in 1..(Len(s) - 1) : ~compareByPriceDesc(s[q[i + 1]], s[q[i]]) }

SortByTimestamp(s) == { Permute(s, q) : q \in SortPermsByTimestamp(s) }

(***************************************************************************)
(* The bag of the elements of a sequence.                                  *)
(***************************************************************************)
BagOfSeq(s) ==
    LET S == { s[i] : i \in 1..Len(s) }
    IN  [e \in S |-> Cardinality({ i \in 1..Len(s) : s[i] = e })]

(***************************************************************************)
(* OrderBook::OrderBook: both files appended, then sorted by timestamp.    *)
(***************************************************************************)
OrderBook(march, june) == SortByTimestamp(march \o june)

(***************************************************************************)
(* OrderBook::getOrders.  getOrdersIdx is the sequence of store positions  *)
(* the loop pushes, getOrders the copies of the records at them.           *)
(***************************************************************************)
\* getOrdersIdx without the product comparison of line 112.
getOrdersIdxAnyProduct(store, type, product, timestamp) ==
    SelectSeq([i \in 1..Len(store) |-> i],
              LAMBDA i : /\ store[i].orderType = type
                         /\ store[i].timestamp = timestamp)

getOrdersIdx(store, type, product, timestamp) ==
    SelectSeq([i \in 1..Len(store) |-> i],
              LAMBDA i : /\ store[i].orderType = type
                         /\ store[i].product = product
                         /\ store[i].timestamp = timestamp)

getOrders(store, type, product, timestamp) ==
    LET idx == getOrdersIdx(store, type, product, timestamp)
    IN  [k \in 1..Len(idx) |-> store[idx[k]]]

(***************************************************************************)
(* OrderBook::getEarliestTime and OrderBook::getNextTime (non-empty store).*)
(***************************************************************************)
\* No record read: the empty string of a default-constructed std::string.
getEarliestTimeUnset(store) == EmptyString

getEarliestTime(store) == store[1].timestamp

\* A call of getEarliestTime on any store, as the set of its possible outcomes.
\* On an empty vector orders[0] is undefined behaviour: the build has no check
\* and no exception to raise, so the call crashes or returns whatever string
\* the read yields.
getEarliestTimeOutcomes(store) ==
    IF store = <<>>
    THEN {[kind |-> "crash", value |-> EmptyString]}
             \cup { [kind |-> "value", value |-> t] : t \in Times \cup {EmptyString} }
    ELSE {[kind |-> "value", value |-> getEarliestTime(store)]}

\* getNextTime without the wrap-around of lines 322-324.
getNextTimeNoWrap(store, timestamp) ==
    LET later == { i \in 1..Len(store) : StrGreater(store[i].timestamp, timestamp) }
    IN  IF later = {} THEN EmptyString
        ELSE store[CHOOSE i \in later : \A j \in later : i <= j].timestamp

\* getNextTime with the comparison of line 315 written >= instead of >.
getNextTimeGeq(store, timestamp) ==
    LET later == { i \in 1..Len(store) : ~StrLess(store[i].timestamp, timestamp) }
        next_timestamp ==
            IF later = {} THEN EmptyString
            ELSE store[CHOOSE i \in later : \A j \in later : i <= j].timestamp
    IN  IF next_timestamp = EmptyString THEN store[1].timestamp ELSE next_timestamp

getNextTime(store, timestamp) ==
    LET later == { i \in 1..Len(store) : StrGreater(store[i].timestamp, timestamp) }
        next_timestamp ==
            IF later = {} THEN EmptyString
            ELSE store[CHOOSE i \in later : \A j \in later : i <= j].timestamp
    IN  IF next_timestamp = EmptyString THEN store[1].timestamp ELSE next_timestamp

(***************************************************************************)
(* OrderBook::insertOrder: push_back, then std::sort by compareByTimestamp.*)
(* The set of stores the call can leave.                                   *)
(***************************************************************************)
\* insertOrder that drops an order equal to a stored one.
insertOrderUnique(store, order) ==
    IF \E i \in 1..Len(store) : store[i] = order THEN {store}
    ELSE SortByTimestamp(Append(store, order))

\* insertOrder without the re-sort of lines 346-347.
insertOrderNoSort(store, order) == { Append(store, order) }

insertOrder(store, order) == SortByTimestamp(Append(store, order))

(***************************************************************************)
(* double arithmetic of the analytics.  A double is modelled by the exact  *)
(* fraction [num, den] in lowest terms; a zero divisor gives the IEEE      *)
(* values: 0.0 / 0.0 is NaN (num = 0, den = 0), x / 0.0 is an infinity     *)
(* (num = 1 or -1, den = 0).  Every ordered comparison with NaN is false.  *)
(***************************************************************************)
RECURSIVE GCD(_, _)
GCD(a, b) == IF b = 0 THEN a ELSE GCD(b, a % b)

Abs(x) == IF x < 0 THEN 0 - x ELSE x

Sign(x) == IF x < 0 THEN 0 - 1 ELSE IF x > 0 THEN 1 ELSE 0

Divide(x, y) ==
    IF y = 0 THEN [num |-> Sign(x), den |-> 0]
    ELSE LET g == GCD(Abs(x), Abs(y))
         IN  [num |-> (Sign(y) * x) \div g, den |-> Abs(y) \div g]

Double(x) == Divide(x, 1)

NaN == Divide(0, 0)

LeqDouble(a, b) == a # NaN /\ b # NaN /\ a.num * b.den <= b.num * a.den

\* std::round(avg * 1e6) / 1e6 for avg = sum / size: halfway cases away from zero.
Micro == 1000000

\* The rounding of line 544 written as a truncation.
RoundMicroTrunc(sum, size) == Divide((sum * Micro) \div size, Micro)

RoundMicro(sum, size) ==
    Divide(Sign(sum) * ((2 * Abs(sum) * Micro + size) \div (2 * size)), Micro)

(***************************************************************************)
(* CSVReader::getAllTimestamps: the timestamps of the lines of both files  *)
(* in a std::set, read out in ascending order.                             *)
(***************************************************************************)
RECURSIVE getAllTimestamps(_)
getAllTimestamps(uniq) ==
    IF uniq = {} THEN <<>>
    ELSE LET first == CHOOSE t \in uniq : \A u \in uniq : ~StrLess(u, t)
         IN  <<first>> \o getAllTimestamps(uniq \ {first})

(***************************************************************************)
(* OrderBook::getHighPrice and OrderBook::getLowPrice (entries non-empty). *)
(***************************************************************************)
RECURSIVE getHighPrice(_)
getHighPrice(entries) ==
    IF Len(entries) = 1 THEN entries[1].price
    ELSE LET maxPrice == getHighPrice(SubSeq(entries, 1, Len(entries) - 1))
             e == entries[Len(entries)]
         IN  IF e.price > maxPrice THEN e.price ELSE maxPrice

RECURSIVE getLowPrice(_)
getLowPrice(entries) ==
    IF Len(entries) = 1 THEN entries[1].price
    ELSE LET minPrice == getLowPrice(SubSeq(entries, 1, Len(entries) - 1))
             e == entries[Len(entries)]
         IN  IF e.price < minPrice THEN e.price ELSE minPrice

(***************************************************************************)
(* OrderBook::getCandlestickData.  totVal and totAmt are the sums of       *)
(* lines 209-214; CandleLoop is the loop of lines 204-233 over the first n *)
(* timestamps of times, giving the candles so far and prevClose.           *)
(***************************************************************************)
RECURSIVE totVal(_)
totVal(entries) ==
    IF entries = <<>> THEN 0
    ELSE Head(entries).price * Head(entries).amount + totVal(Tail(entries))

RECURSIVE totAmt(_)
totAmt(entries) ==
    IF entries = <<>> THEN 0 ELSE Head(entries).amount + totAmt(Tail(entries))

Candlestick(ts, open, high, low, close) ==
    [timestamp |-> ts, open |-> open, high |-> high, low |-> low, close |-> close]

\* The open of line 219 taken from prevClose for the first candle as well.
OpenPricePrevClose(candles, close, prevClose) == prevClose

OpenPrice(candles, close, prevClose) == IF candles = <<>> THEN close ELSE prevClose

RECURSIVE CandleLoop(_, _, _, _, _)
CandleLoop(store, times, n, side, product) ==
    IF n = 0 THEN [candles |-> <<>>, prevClose |-> Double(0)]
    ELSE LET before == CandleLoop(store, times, n - 1, side, product)
             ts == times[n]
             entries == getOrders(store, side, product, ts)
             close == Divide(totVal(entries), totAmt(entries))
             open == OpenPrice(before.candles, close, before.prevClose)
         IN  IF entries = <<>> THEN before
             ELSE [candles |-> Append(before.candles,
                                      Candlestick(ts, open, getHighPrice(entries),
                                                  getLowPrice(entries), close)),
                   prevClose |-> close]

getCandlestickData(store, files, side, product) ==
    LET times == getAllTimestamps(files)
    IN  CandleLoop(store, times, Len(times), side, product).candles

(***************************************************************************)
(* OrderBook::getVolumeData: one (timestamp, totalAmt) pair for every      *)
(* timestamp of getAllTimestamps, in its order.                            *)
(***************************************************************************)
getVolumeData(store, files, side, product) ==
    LET times == getAllTimestamps(files)
    IN  [k \in 1..Len(times) |->
            [timestamp |-> times[k],
             totalAmt |-> Double(totAmt(getOrders(store, side, product, times[k])))]]

(***************************************************************************)
(* OrderBook::getMeanPriceData.  Minute is timestamp.substr(11, 5), the    *)
(* "HH:MM" of the timestamp; MapKeys the keys of the std::map in its       *)
(* iteration order; priceList the prices pushed under one key.             *)
(***************************************************************************)
Minute(timestamp) == timestamp[2]

RECURSIVE MapKeys(_)
MapKeys(keys) ==
    IF keys = {} THEN <<>>
    ELSE LET first == CHOOSE m \in keys : \A n \in keys : m <= n
         IN  <<first>> \o MapKeys(keys \ {first})

priceList(store, type, product, minute) ==
    SelectSeq(store, LAMBDA entry : /\ entry.orderType = type
                                    /\ entry.product = product
                                    /\ Minute(entry.timestamp) = minute)

RECURSIVE SumPrices(_)
SumPrices(list) == IF list = <<>> THEN 0 ELSE Head(list).price + SumPrices(Tail(list))

getMeanPriceData(store, type, product) ==
    LET minutes == MapKeys({ Minute(store[i].timestamp) :
                               i \in { j \in 1..Len(store) :
                                         /\ store[j].orderType = type
                                         /\ store[j].product = product } })
    IN  [k \in 1..Len(minutes) |->
            LET list == priceList(store, type, product, minutes[k])
            IN  [minute |-> minutes[k], avg |-> RoundMicro(SumPrices(list), Len(list))]]

(***************************************************************************)
(* OrderBook::getTradesPerProduct: counts[entry.product]++ over the store; *)
(* the map has a key for every product some stored record carries.         *)
(***************************************************************************)
\* getTradesPerProduct counting the asks only.
getTradesPerProductAsks(store) ==
    [p \in { store[i].product : i \in 1..Len(store) } |->
        Cardinality({ i \in 1..Len(store) :
                        store[i].product = p /\ store[i].orderType = "ask" })]

getTradesPerProduct(store) ==
    [p \in { store[i].product : i \in 1..Len(store) } |->
        Cardinality({ i \in 1..Len(store) : store[i].product = p })]

(***************************************************************************)
(* OrderBook::getKnownProducts: the keys of prodMap in its iteration order *)
(* (a std::map, ascending by std::string comparison; product names are     *)
(* compared here by the order of KnownOrder).                              *)
(***************************************************************************)
KnownOrder == <<"BTC/USDT", "ETH/BTC">>

getKnownProducts(store) ==
    SelectSeq(KnownOrder, LAMBDA p : \E i \in 1..Len(store) : store[i].product = p)

(***************************************************************************)
(* matchAsksToBids, the sale record of one crossing pair (lines 417-436):  *)
(* price of the ask, username "dataset" by the constructor's default,      *)
(* asksale unless only the bid is the user's.                              *)
(***************************************************************************)
\* The price test of line 417 dropped: every pair trades.
CrossesAny(ask, bid) == TRUE

Crosses(ask, bid) == bid.price >= ask.price

\* The two username tests of lines 428-436 in the other order: the bid's wins.
NewSaleBidLast(ask, bid, product, timestamp) ==
    LET sale == [price |-> ask.price, amount |-> 0, timestamp |-> timestamp,
                 product |-> product, orderType |-> "asksale",
                 username |-> "dataset"]
        afterAsk == IF ask.username = "simuser"
                    THEN [sale EXCEPT !.username = "simuser", !.orderType = "asksale"]
                    ELSE sale
    IN  IF bid.username = "simuser"
        THEN [afterAsk EXCEPT !.username = "simuser", !.orderType = "bidsale"]
        ELSE afterAsk

NewSale(ask, bid, product, timestamp) ==
    LET sale == [price |-> ask.price, amount |-> 0, timestamp |-> timestamp,
                 product |-> product, orderType |-> "asksale",
                 username |-> "dataset"]
        afterBid == IF bid.username = "simuser"
                    THEN [sale EXCEPT !.username = "simuser", !.orderType = "bidsale"]
                    ELSE sale
    IN  IF ask.username = "simuser"
        THEN [afterBid EXCEPT !.username = "simuser", !.orderType = "asksale"]
        ELSE afterBid

(***************************************************************************)
(* matchAsksToBids, the quantity branches of one crossing pair (lines      *)
(* 438-465).  traded: whether a sale is pushed; amount: its amount; ask,   *)
(* bid: the working records afterwards; brk: TRUE when the inner loop is   *)
(* left (break), FALSE when it goes on with the next bid.                  *)
(***************************************************************************)
\* Branch 5c leaving the inner loop (line 463 a break): a partly filled ask stops.
MatchPairBreakOnPartial(ask, bid) ==
    IF bid.amount = ask.amount
    THEN [traded |-> TRUE, amount |-> ask.amount, ask |-> ask,
          bid |-> [bid EXCEPT !.amount = 0], brk |-> TRUE]
    ELSE IF bid.amount > ask.amount
    THEN [traded |-> TRUE, amount |-> ask.amount, ask |-> ask,
          bid |-> [bid EXCEPT !.amount = bid.amount - ask.amount], brk |-> TRUE]
    ELSE IF bid.amount > 0
    THEN [traded |-> TRUE, amount |-> bid.amount,
          ask |-> [ask EXCEPT !.amount = ask.amount - bid.amount],
          bid |-> [bid EXCEPT !.amount = 0], brk |-> TRUE]
    ELSE [traded |-> FALSE, amount |-> 0, ask |-> ask, bid |-> bid, brk |-> FALSE]

\* Branch 5c without the test of line 457: an exhausted bid is matched again.
MatchPairNoExhaustTest(ask, bid) ==
    IF bid.amount = ask.amount
    THEN [traded |-> TRUE, amount |-> ask.amount, ask |-> ask,
          bid |-> [bid EXCEPT !.amount = 0], brk |-> TRUE]
    ELSE IF bid.amount > ask.amount
    THEN [traded |-> TRUE, amount |-> ask.amount, ask |-> ask,
          bid |-> [bid EXCEPT !.amount = bid.amount - ask.amount], brk |-> TRUE]
    ELSE [traded |-> TRUE, amount |-> bid.amount,
          ask |-> [ask EXCEPT !.amount = ask.amount - bid.amount],
          bid |-> [bid EXCEPT !.amount = 0], brk |-> FALSE]

\* Branches 5a and 5b without their break (lines 443, 453): a filled ask goes on.
MatchPairNoBreak(ask, bid) ==
    IF bid.amount = ask.amount
    THEN [traded |-> TRUE, amount |-> ask.amount, ask |-> ask,
          bid |-> [bid EXCEPT !.amount = 0], brk |-> FALSE]
    ELSE IF bid.amount > ask.amount
    THEN [traded |-> TRUE, amount |-> ask.amount, ask |-> ask,
          bid |-> [bid EXCEPT !.amount = bid.amount - ask.amount], brk |-> FALSE]
    ELSE IF bid.amount > 0
    THEN [traded |-> TRUE, amount |-> bid.amount,
          ask |-> [ask EXCEPT !.amount = ask.amount - bid.amount],
          bid |-> [bid EXCEPT !.amount = 0], brk |-> FALSE]
    ELSE [traded |-> FALSE, amount |-> 0, ask |-> ask, bid |-> bid, brk |-> FALSE]

\* Branch 5c without line 461: the filled bid keeps its amount.
MatchPairKeepBid(ask, bid) ==
    IF bid.amount = ask.amount
    THEN [traded |-> TRUE, amount |-> ask.amount, ask |-> ask,
          bid |-> [bid EXCEPT !.amount = 0], brk |-> TRUE]
    ELSE IF bid.amount > ask.amount
    THEN [traded |-> TRUE, amount |-> ask.amount, ask |-> ask,
          bid |-> [bid EXCEPT !.amount = bid.amount - ask.amount], brk |-> TRUE]
    ELSE IF bid.amount > 0
    THEN [traded |-> TRUE, amount |-> bid.amount,
          ask |-> [ask EXCEPT !.amount = ask.amount - bid.amount],
          bid |-> bid, brk |-> FALSE]
    ELSE [traded |-> FALSE, amount |-> 0, ask |-> ask, bid |-> bid, brk |-> FALSE]

\* Branch 5b taken for every unequal pair (line 447 a plain else).
MatchPairNoCompare(ask, bid) ==
    IF bid.amount = ask.amount
    THEN [traded |-> TRUE, amount |-> ask.amount, ask |-> ask,
          bid |-> [bid EXCEPT !.amount = 0], brk |-> TRUE]
    ELSE [traded |-> TRUE, amount |-> ask.amount, ask |-> ask,
          bid |-> [bid EXCEPT !.amount = bid.amount - ask.amount], brk |-> TRUE]

\* Branch 5b with the sale's amount taken from the bid (line 449).
MatchPairBidAmount(ask, bid) ==
    IF bid.amount = ask.amount
    THEN [traded |-> TRUE, amount |-> ask.amount, ask |-> ask,
          bid |-> [bid EXCEPT !.amount = 0], brk |-> TRUE]
    ELSE IF bid.amount > ask.amount
    THEN [traded |-> TRUE, amount |-> bid.amount, ask |-> ask,
          bid |-> [bid EXCEPT !.amount = bid.amount - ask.amount], brk |-> TRUE]
    ELSE IF bid.amount > 0
    THEN [traded |-> TRUE, amount |-> bid.amount,
          ask |-> [ask EXCEPT !.amount = ask.amount - bid.amount],
          bid |-> [bid EXCEPT !.amount = 0], brk |-> FALSE]
    ELSE [traded |-> FALSE, amount |-> 0, ask |-> ask, bid |-> bid, brk |-> FALSE]

MatchPair(ask, bid) ==
    IF bid.amount = ask.amount
    THEN [traded |-> TRUE, amount |-> ask.amount, ask |-> ask,
          bid |-> [bid EXCEPT !.amount = 0], brk |-> TRUE]
    ELSE IF bid.amount > ask.amount
    THEN [traded |-> TRUE, amount |-> ask.amount, ask |-> ask,
          bid |-> [bid EXCEPT !.amount = bid.amount - ask.amount], brk |-> TRUE]
    ELSE IF bid.amount > 0
    THEN [traded |-> TRUE, amount |-> bid.amount,
          ask |-> [ask EXCEPT !.amount = ask.amount - bid.amount],
          bid |-> [bid EXCEPT !.amount = 0], brk |-> FALSE]
    ELSE [traded |-> FALSE, amount |-> 0, ask |-> ask, bid |-> bid, brk |-> FALSE]

(***************************************************************************)
(* matchAsksToBids, the two loops (lines 414-468) from ask i, bid j.       *)
(* m.asks, m.bids: the working vectors; m.sales: the sales pushed so far;  *)
(* m.legs: history, for each sale the positions of its ask and its bid in  *)
(* the working vectors; m.trace: history, the working vectors after each   *)
(* pushed sale.                                                            *)
(***************************************************************************)
RECURSIVE MatchLoop(_, _, _, _, _)
MatchLoop(m, i, j, product, timestamp) ==
    IF i > Len(m.asks) THEN m
    ELSE IF j > Len(m.bids) THEN MatchLoop(m, i + 1, 1, product, timestamp)
    ELSE IF ~Crosses(m.asks[i], m.bids[j]) THEN MatchLoop(m, i, j + 1, product, timestamp)
    ELSE
        LET r == MatchPair(m.asks[i], m.bids[j])
            sale == [NewSale(m.asks[i], m.bids[j], product, timestamp)
                        EXCEPT !.amount = r.amount]
            asks2 == [m.asks EXCEPT ![i] = r.ask]
            bids2 == [m.bids EXCEPT ![j] = r.bid]
            m2 == IF r.traded
                  THEN [asks |-> asks2, bids |-> bids2,
                        sales |-> Append(m.sales, sale),
                        legs |-> Append(m.legs, [ask |-> i, bid |-> j]),
                        trace |-> Append(m.trace, [asks |-> asks2, bids |-> bids2])]
                  ELSE m
        IN  IF r.brk THEN MatchLoop(m2, i + 1, 1, product, timestamp)
            ELSE MatchLoop(m2, i, j + 1, product, timestamp)

(***************************************************************************)
(* matchAsksToBids, the early return (lines 398-401), and the debug print  *)
(* (lines 408-411), whose front() and back() are undefined on an empty     *)
(* vector.                                                                 *)
(***************************************************************************)
\* The early return of line 398 written with && instead of ||.
NoBidsAndAsks(asks, bids) == Len(asks) = 0 /\ Len(bids) = 0

NoBidsOrAsks(asks, bids) == Len(asks) = 0 \/ Len(bids) = 0

DebugPrintUndefined(asks, bids) == Len(asks) = 0 \/ Len(bids) = 0

(***************************************************************************)
(* OrderBook::matchAsksToBids: the set of results the call can return.     *)
(* askSrc, bidSrc: history, the store position each working record was     *)
(* copied from; asks0, bids0: the working vectors as sorted, before the    *)
(* loops; undefined: whether the call evaluated front()/back() of an empty *)
(* vector.                                                                 *)
(***************************************************************************)
matchAsksToBids(store, product, timestamp) ==
    LET askIdx == getOrdersIdx(store, "ask", product, timestamp)
        bidIdx == getOrdersIdx(store, "bid", product, timestamp)
        asks == getOrders(store, "ask", product, timestamp)
        bids == getOrders(store, "bid", product, timestamp)
        Result(m, a0, b0, aSrc, bSrc, undef) ==
            [sales |-> m.sales, legs |-> m.legs, trace |-> m.trace,
             asks |-> m.asks, bids |-> m.bids, asks0 |-> a0, bids0 |-> b0,
             askSrc |-> aSrc, bidSrc |-> bSrc, undefined |-> undef]
        Start(a, b) == [asks |-> a, bids |-> b, sales |-> <<>>, legs |-> <<>>,
                        trace |-> <<[asks |-> a, bids |-> b]>>]
    IN  IF NoBidsOrAsks(asks, bids)
        THEN { Result([Start(asks, bids) EXCEPT !.trace = <<>>],
                      asks, bids, askIdx, bidIdx, FALSE) }
        ELSE { Result(MatchLoop(Start(Permute(asks, qa), Permute(bids, qb)),
                                1, 1, product, timestamp),
                      Permute(asks, qa), Permute(bids, qb),
                      Permute(askIdx, qa), Permute(bidIdx, qb),
                      DebugPrintUndefined(asks, bids)) :
                 qa \in SortPermsByPriceAsc(asks),
                 qb \in SortPermsByPriceDesc(bids) }

(***************************************************************************)
(* The store after a matchAsksToBids call: asks and bids are vectors of    *)
(* copies (lines 389-392, getOrders pushes copies), and the loops write    *)
(* through references into those vectors only, so `orders` is as before.   *)
(***************************************************************************)
\* The working vectors as references into `orders`: the loops' writes land in the store.
StoreAfterMatchAliased(store, out) ==
    [i \in 1..Len(store) |->
        IF \E k \in 1..Len(out.askSrc) : out.askSrc[k] = i
        THEN out.asks[CHOOSE k \in 1..Len(out.askSrc) : out.askSrc[k] = i]
        ELSE IF \E k \in 1..Len(out.bidSrc) : out.bidSrc[k] = i
        THEN out.bids[CHOOSE k \in 1..Len(out.bidSrc) : out.bidSrc[k] = i]
        ELSE store[i]]

StoreAfterMatch(store, out) == store

(***************************************************************************)
(* CSVReader::tokenise(product, '/') on the product names in use: the      *)
(* currencies of a pair, one token for a name without a separator.         *)
(***************************************************************************)
tokenise(product) ==
    CASE product = "ETH/BTC" -> <<"ETH", "BTC">>
      [] product = "BTC/USDT" -> <<"BTC", "USDT">>
      [] OTHER -> <<product>>

(***************************************************************************)
(* Wallet.  The wallet is the map `currencies`: a function from the        *)
(* currencies that have a key to their balances.  Balance(w, c) is what    *)
(* currencies[c] reads: the value of the key, 0.0 for a key it creates.    *)
(***************************************************************************)
Wallet == [c \in {} |-> 0]

InitialBTC == 10

Balance(w, type) == IF type \in DOMAIN w THEN w[type] ELSE 0

SetBalance(w, type, balance) ==
    [c \in DOMAIN w \cup {type} |-> IF c = type THEN balance ELSE w[c]]

insertCurrency(w, type, amount) == SetBalance(w, type, Balance(w, type) + amount)

containsCurrency(w, type, amount) == type \in DOMAIN w /\ w[type] >= amount

(***************************************************************************)
(* Wallet::canFulfillOrder, as the set of outcomes of a call.  A bid reads *)
(* currs[1]: for a product without a separator that is a read past the end *)
(* of the vector, undefined behaviour, which the build turns into a crash, *)
(* an exception thrown while the garbage is copied as a std::string, or an *)
(* unknown currency name, for which containsCurrency is false.             *)
(***************************************************************************)
\* canFulfillOrder that trusts every order.
canFulfillOrderAny(w, order) == {"true"}

canFulfillOrder(w, order) ==
    LET currs == tokenise(order.product)
        Holds(b) == IF b THEN {"true"} ELSE {"false"}
    IN  IF order.orderType = "ask"
        THEN Holds(containsCurrency(w, currs[1], order.amount))
        ELSE IF order.orderType = "bid"
        THEN IF Len(currs) >= 2
             THEN Holds(containsCurrency(w, currs[2], order.amount * order.price))
             ELSE {"false", "throw", "crash"}
        ELSE {"false"}

(***************************************************************************)
(* Wallet::processSale: the wallet after the sale.                         *)
(***************************************************************************)
processSale(w, sale) ==
    LET currs == tokenise(sale.product)
        base == currs[1]
        quote == currs[2]
    IN  IF sale.orderType = "asksale"
        THEN LET gained == SetBalance(w, quote, Balance(w, quote) + sale.amount * sale.price)
             IN  SetBalance(gained, base, Balance(gained, base) - sale.amount)
        ELSE IF sale.orderType = "bidsale"
        THEN LET gained == SetBalance(w, base, Balance(w, base) + sale.amount)
             IN  SetBalance(gained, quote,
                            Balance(gained, quote) - sale.amount * sale.price)
        ELSE w

(***************************************************************************)
(* Records.  A CSV line gives a record owned by "dataset" (the             *)
(* constructor's default username); a user order is owned by "simuser".    *)
(***************************************************************************)
Sides == {"ask", "bid"}

BookRecords(user) ==
    [price : {PriceLo}, amount : {1}, timestamp : Times, product : Products,
     orderType : Sides, username : {user}]

MatchRecords ==
    [price : Prices, amount : Amounts, timestamp : {T1}, product : {"ETH/BTC"},
     orderType : Sides, username : {"dataset"}]

TagRecords(user) ==
    [price : Prices, amount : {1}, timestamp : {T1}, product : {"ETH/BTC"},
     orderType : Sides, username : {user}]

\* Chart records: every price, amount (zero included) and side at three timestamps.
ChartAmounts == {0, 1}

ChartTimes == {<<1, 1, 1>>, <<1, 2, 1>>, <<2, 1, 1>>}

ChartRecords ==
    [price : Prices, amount : ChartAmounts, timestamp : ChartTimes, product : {"ETH/BTC"},
     orderType : Sides, username : {"dataset"}]

\* Mean-price records: every price and side at minutes 1 and 2 of two dates.
MeanTimes == {<<1, 1, 1>>, <<1, 1, 2>>, <<1, 2, 1>>, <<2, 1, 1>>}

MeanRecords ==
    [price : Prices, amount : {1}, timestamp : MeanTimes, product : {"ETH/BTC"},
     orderType : Sides, username : {"dataset"}]

\* Simulation records: the CSV lines of SpecSim, at one price, and the lines the
\* user types: three tokens (product, price, amount), two tokens, a price that is
\* no number.
SimAmounts == {10, 20}

SimTimes == {<<1, 1, 1>>, <<2, 1, 1>>}

SimRecords ==
    [price : {PriceLo}, amount : SimAmounts, timestamp : SimTimes, product : Products,
     orderType : Sides, username : {"dataset"}]

Float(x) == [isFloat |-> TRUE, value |-> x]

NoFloat == [isFloat |-> FALSE, value |-> 0]

SimLines ==
    { <<product, Float(price), Float(amount)>> :
        product \in Products \cup {"BTCUSDT"}, price \in Prices, amount \in SimAmounts }
      \cup {<<"BTC/USDT", Float(PriceLo)>>, <<"BTC/USDT", NoFloat, Float(10)>>}

SeqsUpTo(S, n) == UNION { [1..k -> S] : k \in 0..n }

NoRun == [product |-> "", timestamp |-> EmptyString]

(***************************************************************************)
(* Initial states: the store the constructor builds from the two files.    *)
(***************************************************************************)
InitStore(lines) ==
    /\ \E march \in SeqsUpTo(lines, MaxLines), june \in SeqsUpTo(lines, MaxLines) :
         /\ orders \in OrderBook(march, june)
         /\ loaded = BagOfSeq(march \o june)
         /\ csvTimes = { (march \o june)[i].timestamp : i \in 1..Len(march \o june) }
    /\ pc = "idle"
    /\ run = NoRun
    /\ wallet = insertCurrency(Wallet, "BTC", InitialBTC)
    /\ said = ""
    /\ settled = EmptyBag
    /\ ticks = 0

\* The store and the wallet of main() with no MerkelMain constructed.
InitFrom(lines) == InitStore(lines) /\ currentTime = EmptyString

(***************************************************************************)
(* Actions.                                                                *)
(***************************************************************************)
InsertOrder(order, cap) ==
    /\ pc = "idle"
    /\ Len(orders) < cap
    /\ orders' \in insertOrder(orders, order)
    /\ loaded' = loaded (+) SetToBag({order})
    /\ UNCHANGED <<csvTimes, pc, run, cli>>

CallMatch(product, timestamp) ==
    /\ pc = "idle"
    /\ \E out \in matchAsksToBids(orders, product, timestamp) :
         /\ run' = [product |-> product, timestamp |-> timestamp, out |-> out]
         /\ orders' = StoreAfterMatch(orders, out)
    /\ pc' = "matched"
    /\ UNCHANGED <<loaded, csvTimes, cli>>

ReturnMatch ==
    /\ pc = "matched"
    /\ pc' = "idle"
    /\ run' = NoRun
    /\ UNCHANGED <<orders, loaded, csvTimes, cli>>

(***************************************************************************)
(* MerkelMain::enterAsk and MerkelMain::enterBid on the line read from     *)
(* std::cin, given as its tokens.  EnterOrder is the body the two share:   *)
(* the token count test, stringsToOBE (std::stod throws on a token that is *)
(* no number), the wallet check, the insertion.  A crash ends the process. *)
(***************************************************************************)
EnterOrder(line, orderType, placed, cap) ==
    /\ pc = "idle"
    /\ Len(orders) < cap
    /\ IF Len(line) # 3
       THEN said' = "Bad input" /\ UNCHANGED <<orders, loaded, pc>>
       ELSE IF ~(line[2].isFloat /\ line[3].isFloat)
       THEN said' = "Error parsing input." /\ UNCHANGED <<orders, loaded, pc>>
       ELSE LET obe == [price |-> line[2].value, amount |-> line[3].value,
                        timestamp |-> currentTime, product |-> line[1],
                        orderType |-> orderType, username |-> "simuser"]
            IN  \E can \in canFulfillOrder(wallet, obe) :
                    CASE can = "true" ->
                           /\ orders' \in insertOrder(orders, obe)
                           /\ loaded' = loaded (+) SetToBag({obe})
                           /\ said' = placed
                           /\ UNCHANGED pc
                      [] can = "false" ->
                           said' = "Insufficient funds." /\ UNCHANGED <<orders, loaded, pc>>
                      [] can = "throw" ->
                           said' = "Error parsing input." /\ UNCHANGED <<orders, loaded, pc>>
                      [] can = "crash" ->
                           pc' = "crashed" /\ UNCHANGED <<orders, loaded, said>>
    /\ UNCHANGED <<csvTimes, run, wallet, currentTime, settled, ticks>>

EnterAsk(line, cap) == EnterOrder(line, "ask", "Ask placed.", cap)

EnterBid(line, cap) == EnterOrder(line, "bid", "Bid placed.", cap)

(***************************************************************************)
(* MerkelMain::gotoNextTimeframe.  SettleSales is the inner loop over the  *)
(* sales of one matchAsksToBids call, SettleProducts the outer loop over   *)
(* the first n known products: the sets of wallets (and stores) they can   *)
(* leave.  The settled history charges each processed sale to the stored   *)
(* order it was generated from: the ask of an asksale, the bid of a        *)
(* bidsale.                                                                *)
(***************************************************************************)
\* The username test of line 159 dropped: every sale is processed.
IsUserSaleAny(sale) == TRUE

IsUserSale(sale) == sale.username = "simuser"

RECURSIVE SettleSales(_, _, _)
SettleSales(st, out, k) ==
    IF k = 0 THEN st
    ELSE LET prev == SettleSales(st, out, k - 1)
             sale == out.sales[k]
             order == IF sale.orderType = "asksale"
                      THEN st.store[out.askSrc[out.legs[k].ask]]
                      ELSE st.store[out.bidSrc[out.legs[k].bid]]
         IN  IF IsUserSale(sale)
             THEN [prev EXCEPT !.wallet = processSale(prev.wallet, sale),
                               !.settled = prev.settled (+) [o \in {order} |-> sale.amount]]
             ELSE prev

RECURSIVE SettleProducts(_, _, _, _)
SettleProducts(st, products, n, timestamp) ==
    IF n = 0 THEN {st}
    ELSE UNION { { SettleSales([prev EXCEPT !.store = StoreAfterMatch(prev.store, out)],
                               out, Len(out.sales)) :
                     out \in matchAsksToBids(prev.store, products[n], timestamp) } :
                 prev \in SettleProducts(st, products, n - 1, timestamp) }

GotoNextTimeframe ==
    /\ pc = "idle"
    /\ ticks < MaxTicks
    /\ \E st \in SettleProducts([wallet |-> wallet, settled |-> settled, store |-> orders],
                                getKnownProducts(orders), Len(getKnownProducts(orders)),
                                currentTime) :
         /\ wallet' = st.wallet
         /\ settled' = st.settled
         /\ orders' = st.store
    /\ currentTime' = getNextTime(orders', currentTime)
    /\ ticks' = ticks + 1
    /\ UNCHANGED <<loaded, csvTimes, pc, run, said>>

(***************************************************************************)
(* Spec: the store under records of every timestamp, product and side.     *)
(***************************************************************************)
Init == InitFrom(BookRecords("dataset"))

Next ==
    \/ \E order \in BookRecords("simuser") : InsertOrder(order, MaxBook)
    \/ \E product \in Products, timestamp \in Times : CallMatch(product, timestamp)
    \/ ReturnMatch

Spec == Init /\ [][Next]_vars

(***************************************************************************)
(* SpecMatch: one product and timestamp under records of every price,      *)
(* amount and side.                                                        *)
(***************************************************************************)
InitMatch == InitFrom(MatchRecords)

NextMatch ==
    \/ \E order \in MatchRecords : InsertOrder(order, MaxOrders)
    \/ \E product \in Products : CallMatch(product, T1)
    \/ ReturnMatch

SpecMatch == InitMatch /\ [][NextMatch]_vars

(***************************************************************************)
(* SpecTag: one product and timestamp under records of every price, side   *)
(* and owner: dataset records from the files, user orders inserted.        *)
(***************************************************************************)
InitTag == InitFrom(TagRecords("dataset"))

NextTag ==
    \/ \E order \in TagRecords("simuser") : InsertOrder(order, MaxOrders)
    \/ \E product \in Products : CallMatch(product, T1)
    \/ ReturnMatch

SpecTag == InitTag /\ [][NextTag]_vars

(***************************************************************************)
(* SpecChart: one product under records of every price, amount and side at *)
(* three timestamps, for the candlestick and volume series.                *)
(***************************************************************************)
InitChart == InitFrom(ChartRecords)

NextChart == \E order \in ChartRecords : InsertOrder(order, MaxBook)

SpecChart == InitChart /\ [][NextChart]_vars

(***************************************************************************)
(* SpecMean: one product under records of every price and side at four     *)
(* timestamps of two minute labels, for the mean-price series.             *)
(***************************************************************************)
InitMean == InitFrom(MeanRecords)

NextMean == \E order \in MeanRecords : InsertOrder(order, MaxBook)

SpecMean == InitMean /\ [][NextMean]_vars

(***************************************************************************)
(* SpecSim: the simulation of main(): the MerkelMain constructor on a      *)
(* non-empty store (main returns before it when no product can be chosen), *)
(* then the menu loop over enterAsk, enterBid and gotoNextTimeframe.        *)
(***************************************************************************)
InitSim ==
    /\ InitStore(SimRecords)
    /\ orders # <<>>
    /\ currentTime = getEarliestTime(orders)

NextSim ==
    \/ \E line \in SimLines : EnterAsk(line, MaxBook)
    \/ \E line \in SimLines : EnterBid(line, MaxBook)
    \/ GotoNextTimeframe

SpecSim == InitSim /\ [][NextSim]_vars

(***************************************************************************)
(* Vocabulary of the properties.                                           *)
(***************************************************************************)
RECURSIVE SumAmount(_)
SumAmount(s) == IF Len(s) = 0 THEN 0 ELSE Head(s).amount + SumAmount(Tail(s))

Min(a, b) == IF a <= b THEN a ELSE b

Matched == pc = "matched"

\* The asks and the bids stored for the arguments of the observed call.
StoredAsks == SelectSeq(orders, LAMBDA e : e.orderType = "ask"
                   /\ e.product = run.product /\ e.timestamp = run.timestamp)
StoredBids == SelectSeq(orders, LAMBDA e : e.orderType = "bid"
                   /\ e.product = run.product /\ e.timestamp = run.timestamp)

Sales == run.out.sales
\* The stored ask and the stored bid the k-th sale was generated from.
AskOf(k) == orders[run.out.askSrc[run.out.legs[k].ask]]
BidOf(k) == orders[run.out.bidSrc[run.out.legs[k].bid]]

\* The total amount of the sales generated from working ask i / working bid j.
RECURSIVE TradedOnAsk(_, _)
TradedOnAsk(i, k) ==
    IF k = 0 THEN 0
    ELSE TradedOnAsk(i, k - 1) + (IF run.out.legs[k].ask = i THEN Sales[k].amount ELSE 0)
RECURSIVE TradedOnBid(_, _)
TradedOnBid(j, k) ==
    IF k = 0 THEN 0
    ELSE TradedOnBid(j, k - 1) + (IF run.out.legs[k].bid = j THEN Sales[k].amount ELSE 0)

(***************************************************************************)
(* C1: the amounts of the trades one matchAsksToBids call returns sum to   *)
(* at most min(total amount of the stored asks, total amount of the stored *)
(* bids) of that product and timestamp.                                    *)
(***************************************************************************)
C1_QuantityUpperBound ==
    Matched => SumAmount(Sales) <= Min(SumAmount(StoredAsks), SumAmount(StoredBids))

\* A call that traded, and traded less than either side's total.
C1_Witness ==
    /\ Matched
    /\ Len(Sales) >= 2
    /\ SumAmount(Sales) < Min(SumAmount(StoredAsks), SumAmount(StoredBids))

(***************************************************************************)
(* C2: whenever some assignment of ask quantities to bids over pairs with  *)
(* bid.price >= ask.price consumes all of the asks or all of the bids, the *)
(* trades returned sum to min(total of the asks, total of the bids).       *)
(***************************************************************************)
FullyConsumable(asks, bids) ==
    LET A == 1..Len(asks)
        B == 1..Len(bids)
        Cap == 0..Min(SumAmount(asks), SumAmount(bids))
        RECURSIVE RowSum(_, _, _)
        RowSum(f, i, j) == IF j = 0 THEN 0 ELSE f[<<i, j>>] + RowSum(f, i, j - 1)
        RECURSIVE ColSum(_, _, _)
        ColSum(f, i, j) == IF i = 0 THEN 0 ELSE f[<<i, j>>] + ColSum(f, i - 1, j)
    IN  \E f \in [A \X B -> Cap] :
            /\ \A i \in A, j \in B : f[<<i, j>>] > 0 => bids[j].price >= asks[i].price
            /\ \A i \in A : RowSum(f, i, Len(bids)) <= asks[i].amount
            /\ \A j \in B : ColSum(f, Len(asks), j) <= bids[j].amount
            /\ \/ \A i \in A : RowSum(f, i, Len(bids)) = asks[i].amount
               \/ \A j \in B : ColSum(f, Len(asks), j) = bids[j].amount

C2_QuantityEquality ==
    (Matched /\ FullyConsumable(StoredAsks, StoredBids))
        => SumAmount(Sales) = Min(SumAmount(StoredAsks), SumAmount(StoredBids))

(***************************************************************************)
(* C3: every trade has the price of the stored ask it was generated from,  *)
(* an ask of the call's product and timestamp, and the bid it was matched  *)
(* with has a price not below that ask's.                                  *)
(***************************************************************************)
C3_PricePriority ==
    Matched =>
        \A k \in 1..Len(Sales) :
            /\ Sales[k].price = AskOf(k).price
            /\ AskOf(k).orderType = "ask" /\ BidOf(k).orderType = "bid"
            /\ AskOf(k).product = run.product /\ AskOf(k).timestamp = run.timestamp
            /\ BidOf(k).product = run.product /\ BidOf(k).timestamp = run.timestamp
            /\ BidOf(k).price >= AskOf(k).price

\* A call that traded although some stored ask is priced above some stored bid.
C3_Witness ==
    /\ Matched
    /\ Len(Sales) >= 1
    /\ \E i \in 1..Len(StoredAsks), j \in 1..Len(StoredBids) :
           StoredBids[j].price < StoredAsks[i].price

(***************************************************************************)
(* C4: on a non-empty store the cursor that starts at getEarliestTime()    *)
(* and is advanced by getNextTime is, after k - 1 steps, the k-th smallest *)
(* distinct timestamp of the store, for every k up to their number, and    *)
(* one more step brings it back to the earliest.                           *)
(***************************************************************************)
StoredTimes == { orders[i].timestamp : i \in 1..Len(orders) }

RECURSIVE Cursor(_)
Cursor(k) == IF k = 1 THEN getEarliestTime(orders)
             ELSE getNextTime(orders, Cursor(k - 1))

C4_CycleProperty ==
    Len(orders) > 0 =>
        /\ \A k \in 1..Cardinality(StoredTimes) :
              /\ Cursor(k) \in StoredTimes
              /\ Cardinality({ t \in StoredTimes : StrLess(t, Cursor(k)) }) = k - 1
        /\ Cursor(Cardinality(StoredTimes) + 1) = Cursor(1)

\* A store with several timestamps, one of them on more than one record.
C4_Witness ==
    /\ Cardinality(StoredTimes) >= 2
    /\ Len(orders) > Cardinality(StoredTimes)

(***************************************************************************)
(* C5: a matchAsksToBids call leaves the store as it was: the same records *)
(* with the same fields at the same positions.                             *)
(***************************************************************************)
C5_StoreUnchangedByMatch ==
    [][(pc = "idle" /\ pc' = "matched") => orders' = orders]_vars

\* A call whose working copy of a bid was reduced below the stored amount.
C5_Witness ==
    /\ Matched
    /\ \E j \in 1..Len(run.out.bids) :
           /\ run.out.bids[j].amount < orders[run.out.bidSrc[j]].amount
           /\ run.out.bids[j].amount > 0

(***************************************************************************)
(* C6: the store is non-decreasing by timestamp after construction and     *)
(* after every insertOrder, and getOrders returns every record handed to   *)
(* the store, as often as it was handed, for its own side, product and     *)
(* timestamp.                                                              *)
(***************************************************************************)
C6_InsertPreservesSortedness ==
    /\ \A i \in 1..(Len(orders) - 1) :
           ~StrLess(orders[i + 1].timestamp, orders[i].timestamp)
    /\ \A r \in BagToSet(loaded) :
           LET got == getOrders(orders, r.orderType, r.product, r.timestamp)
           IN  Cardinality({ k \in 1..Len(got) : got[k] = r }) = CopiesIn(r, loaded)

\* An inserted record stored before a record of the files with a later timestamp.
C6_Witness ==
    \E i \in 1..Len(orders), j \in 1..Len(orders) :
        /\ i < j
        /\ orders[i].username = "simuser"
        /\ orders[j].username = "dataset"
        /\ StrLess(orders[i].timestamp, orders[j].timestamp)

(***************************************************************************)
(* C7: after every step of the loops every working ask and every working   *)
(* bid has an amount >= 0, and the trades generated from one ask or one    *)
(* bid sum to at most its original amount.                                 *)
(***************************************************************************)
C7_NoNegativeRemainder ==
    Matched =>
        /\ \A n \in 1..Len(run.out.trace) :
              /\ \A i \in 1..Len(run.out.trace[n].asks) : run.out.trace[n].asks[i].amount >= 0
              /\ \A j \in 1..Len(run.out.trace[n].bids) : run.out.trace[n].bids[j].amount >= 0
        /\ \A i \in 1..Len(run.out.asks0) :
              TradedOnAsk(i, Len(Sales)) <= run.out.asks0[i].amount
        /\ \A j \in 1..Len(run.out.bids0) :
              TradedOnBid(j, Len(Sales)) <= run.out.bids0[j].amount

\* A call in which one ask was filled by two bids.
C7_Witness ==
    /\ Matched
    /\ \E k \in 1..Len(Sales), l \in 1..Len(Sales) :
           /\ k < l
           /\ run.out.legs[k].ask = run.out.legs[l].ask
           /\ run.out.legs[k].bid # run.out.legs[l].bid

(***************************************************************************)
(* C8: no call evaluates anything undefined, and a call for a product and  *)
(* timestamp with no stored ask or no stored bid returns no trade.         *)
(***************************************************************************)
C8_NoLiquidity ==
    Matched =>
        /\ ~run.out.undefined
        /\ (Len(StoredAsks) = 0 \/ Len(StoredBids) = 0) => Len(Sales) = 0

\* A call for a product and timestamp with asks stored and no bid.
C8_Witness ==
    /\ Matched
    /\ Len(StoredAsks) > 0
    /\ Len(StoredBids) = 0
    /\ Len(Sales) = 0

(***************************************************************************)
(* C9: with exactly one ask (p, a) and one bid (q, b), q >= p, stored for  *)
(* the product and timestamp, the call returns exactly one trade, of price *)
(* p and amount min(a, b).                                                 *)
(***************************************************************************)
C9_SingleCrossingPair ==
    (/\ Matched
     /\ Len(StoredAsks) = 1
     /\ Len(StoredBids) = 1
     /\ StoredBids[1].price >= StoredAsks[1].price)
        => /\ Len(Sales) = 1
           /\ Sales[1].price = StoredAsks[1].price
           /\ Sales[1].amount = Min(StoredAsks[1].amount, StoredBids[1].amount)

\* The example: ask (PriceLo, 1) against bid (PriceHi, 2) gives one trade (PriceLo, 1).
C9_Witness ==
    /\ Matched
    /\ Len(StoredAsks) = 1 /\ Len(StoredBids) = 1
    /\ StoredAsks[1].price = PriceLo /\ StoredAsks[1].amount = 1
    /\ StoredBids[1].price = PriceHi /\ StoredBids[1].amount = 2
    /\ Len(Sales) = 1 /\ Sales[1].price = PriceLo /\ Sales[1].amount = 1

(***************************************************************************)
(* C10: a trade is an asksale when its ask is the user's, else a bidsale   *)
(* when its bid is the user's, else an asksale; it is owned by "simuser"   *)
(* exactly when its ask or its bid is.                                     *)
(***************************************************************************)
C10_TradeTagging ==
    Matched =>
        \A k \in 1..Len(Sales) :
            LET askUser == AskOf(k).username = "simuser"
                bidUser == BidOf(k).username = "simuser"
            IN  /\ Sales[k].orderType =
                       (IF askUser THEN "asksale"
                        ELSE IF bidUser THEN "bidsale" ELSE "asksale")
                /\ (Sales[k].username = "simuser") <=> (askUser \/ bidUser)

\* A call with a trade between two user orders and a trade of a user bid only.
C10_Witness ==
    /\ Matched
    /\ \E k \in 1..Len(Sales) :
           AskOf(k).username = "simuser" /\ BidOf(k).username = "simuser"
    /\ \E k \in 1..Len(Sales) :
           AskOf(k).username = "dataset" /\ BidOf(k).username = "simuser"

(***************************************************************************)
(* C11: getCandlestickData(side, product) returns exactly one candle for   *)
(* each timestamp at which the store holds at least one order of that side *)
(* and product, no candle for any other timestamp, in ascending timestamp  *)
(* order.                                                                  *)
(***************************************************************************)
HeldTimes(side, product) ==
    { orders[i].timestamp :
        i \in { j \in 1..Len(orders) :
                  orders[j].orderType = side /\ orders[j].product = product } }

Candles(side, product) == getCandlestickData(orders, csvTimes, side, product)

C11_CandlesFollowStore ==
    \A side \in Sides, product \in Products :
        LET candles == Candles(side, product)
        IN  /\ \A t \in HeldTimes(side, product) :
                   Cardinality({ k \in 1..Len(candles) : candles[k].timestamp = t }) = 1
            /\ \A k \in 1..Len(candles) : candles[k].timestamp \in HeldTimes(side, product)
            /\ \A k \in 1..(Len(candles) - 1) :
                   StrLess(candles[k].timestamp, candles[k + 1].timestamp)

(***************************************************************************)
(* C12: getVolumeData(side, product) returns exactly one entry per         *)
(* distinct timestamp of the global timeline (the distinct timestamps of   *)
(* the full collection), ascending, whose value is the sum of the amounts  *)
(* of the stored orders of that side and product at that timestamp, 0 when *)
(* there are none; it has at least as many entries as getCandlestickData,  *)
(* and strictly more when the product is absent at some timestamp.         *)
(***************************************************************************)
Volumes(side, product) == getVolumeData(orders, csvTimes, side, product)

AmountAt(side, product, t) ==
    SumAmount(SelectSeq(orders, LAMBDA e : /\ e.orderType = side
                                           /\ e.product = product
                                           /\ e.timestamp = t))

C12_VolumeDense ==
    \A side \in Sides, product \in Products :
        LET volumes == Volumes(side, product)
            candles == Candles(side, product)
        IN  /\ \A t \in StoredTimes :
                   Cardinality({ k \in 1..Len(volumes) : volumes[k].timestamp = t }) = 1
            /\ \A k \in 1..Len(volumes) :
                   /\ volumes[k].timestamp \in StoredTimes
                   /\ volumes[k].totalAmt =
                          Double(AmountAt(side, product, volumes[k].timestamp))
            /\ \A k \in 1..(Len(volumes) - 1) :
                   StrLess(volumes[k].timestamp, volumes[k + 1].timestamp)
            /\ Len(volumes) >= Len(candles)
            /\ (StoredTimes \ HeldTimes(side, product) # {})
                   => Len(volumes) > Len(candles)

(***************************************************************************)
(* C13: every candle returned by getCandlestickData has                    *)
(* low <= close <= high, for any stored orders with non-negative amounts.  *)
(***************************************************************************)
C13_CloseBounded ==
    \A side \in Sides, product \in Products :
        LET candles == Candles(side, product)
        IN  \A k \in 1..Len(candles) :
                /\ LeqDouble(Double(candles[k].low), candles[k].close)
                /\ LeqDouble(candles[k].close, Double(candles[k].high))

Labelled(side, product, minute) ==
    { i \in 1..Len(orders) : /\ orders[i].orderType = side
                             /\ orders[i].product = product
                             /\ orders[i].timestamp[2] = minute }

Labels(side, product) ==
    { orders[i].timestamp[2] :
        i \in { j \in 1..Len(orders) :
                  orders[j].orderType = side /\ orders[j].product = product } }

RECURSIVE PriceSum(_)
PriceSum(I) ==
    IF I = {} THEN 0
    ELSE LET i == CHOOSE j \in I : TRUE IN orders[i].price + PriceSum(I \ {i})

Means(side, product) == getMeanPriceData(orders, side, product)

OneEntryPerLabel(side, product) ==
    LET means == Means(side, product)
    IN  /\ \A m \in Labels(side, product) :
               Cardinality({ k \in 1..Len(means) : means[k].minute = m }) = 1
        /\ \A k \in 1..Len(means) : means[k].minute \in Labels(side, product)
        /\ \A k \in 1..(Len(means) - 1) : means[k].minute < means[k + 1].minute

\* v is sum / n rounded to a multiple of 10^-6: no multiple is nearer to sum / n.
IsMeanToSixDecimals(v, sum, n) ==
    /\ v.den > 0
    /\ Micro % v.den = 0
    /\ Abs(2 * (v.num * (Micro \div v.den)) * n - 2 * sum * Micro) <= n

(***************************************************************************)
(* C15 as stated: getMeanPriceData(side, product) returns exactly one      *)
(* entry per minute label carried by a stored order of that side and       *)
(* product, regardless of date, in ascending label order, whose value is   *)
(* the arithmetic mean of the prices of those orders.                      *)
(***************************************************************************)
C15_MeanPriceExact ==
    \A side \in Sides, product \in Products :
        /\ OneEntryPerLabel(side, product)
        /\ \A k \in 1..Len(Means(side, product)) :
               LET I == Labelled(side, product, Means(side, product)[k].minute)
               IN  Means(side, product)[k].avg = Divide(PriceSum(I), Cardinality(I))

(***************************************************************************)
(* C15 amended: the same, with the value being the arithmetic mean rounded *)
(* to six decimal places.                                                  *)
(***************************************************************************)
C15_MeanPriceRounded ==
    \A side \in Sides, product \in Products :
        /\ OneEntryPerLabel(side, product)
        /\ \A k \in 1..Len(Means(side, product)) :
               LET I == Labelled(side, product, Means(side, product)[k].minute)
               IN  IsMeanToSixDecimals(Means(side, product)[k].avg,
                                       PriceSum(I), Cardinality(I))

\* Three asks of one minute label, at two seconds and two dates, give a single
\* entry whose value is not their exact mean.
C15_Witness ==
    LET means == Means("ask", "ETH/BTC")
        I == Labelled("ask", "ETH/BTC", 1)
    IN  /\ Cardinality(I) = 3
        /\ { orders[i].timestamp : i \in I } = {<<1, 1, 1>>, <<1, 1, 2>>, <<2, 1, 1>>}
        /\ Len(means) = 1
        /\ means[1].minute = 1
        /\ means[1].avg # Divide(PriceSum(I), 3)
        /\ IsMeanToSixDecimals(means[1].avg, PriceSum(I), 3)

(***************************************************************************)
(* C16: getEarliestTime on an empty store fails with an EmptyStore error   *)
(* surfaced to the caller, never a value or a silent default; on a         *)
(* non-empty store it returns the minimum timestamp present.               *)
(***************************************************************************)
MinStoredTime == CHOOSE t \in StoredTimes : \A u \in StoredTimes : ~StrLess(u, t)

C16_EarliestTimeOrError ==
    /\ orders = <<>> =>
           \A o \in getEarliestTimeOutcomes(orders) : o.kind = "EmptyStore"
    /\ orders # <<>> =>
           getEarliestTimeOutcomes(orders) = {[kind |-> "value", value |-> MinStoredTime]}

(***************************************************************************)
(* C17: on a non-empty store getNextTime(current) returns, for any string  *)
(* current, stored or not, the smallest stored timestamp strictly greater  *)
(* than current, and the earliest stored timestamp when none is greater.   *)
(***************************************************************************)
CurrentStrings == Times \cup {EmptyString, <<0, 9, 9>>, <<1>>, <<1, 1>>, <<1, 1, 1, 1>>, <<3>>}

C17_NextTime ==
    orders # <<>> =>
        \A current \in CurrentStrings :
            LET greater == { t \in StoredTimes : StrLess(current, t) }
            IN  getNextTime(orders, current) =
                    IF greater = {} THEN MinStoredTime
                    ELSE CHOOSE t \in greater : \A u \in greater : ~StrLess(u, t)

\* A store of two timestamps: a current between them that is not stored gets the
\* later one, a current beyond both wraps to the earlier one.
C17_Witness ==
    /\ StoredTimes = {<<1, 1, 1>>, <<2, 1, 1>>}
    /\ getNextTime(orders, <<1, 1, 1, 1>>) = <<2, 1, 1>>
    /\ getNextTime(orders, <<1, 1, 2>>) = <<2, 1, 1>>
    /\ getNextTime(orders, <<3>>) = <<1, 1, 1>>
    /\ getNextTime(orders, <<2, 1, 1>>) = <<1, 1, 1>>

(***************************************************************************)
(* Steps of insertOrder are those that add to the history of records       *)
(* handed to the store; Inserted is the record such a step hands over.     *)
(***************************************************************************)
IsInsertStep == loaded' # loaded

Inserted == CHOOSE e \in BagToSet(loaded') : CopiesIn(e, loaded') > CopiesIn(e, loaded)

(***************************************************************************)
(* C18: the store is append-only: each insertOrder call increases the      *)
(* number of stored records by exactly one and keeps every previously      *)
(* stored record unchanged, and no operation ever removes a record.        *)
(***************************************************************************)
C18_AppendOnly ==
    [][/\ BagOfSeq(orders) \sqsubseteq BagOfSeq(orders')
       /\ IsInsertStep =>
              /\ Len(orders') = Len(orders) + 1
              /\ BagOfSeq(orders') = BagOfSeq(orders) (+) SetToBag({Inserted})]_vars

\* A store that kept a record of the files and both copies of an order inserted twice.
C18_Witness ==
    /\ Len(orders) = 3
    /\ \E i \in 1..3 : orders[i].username = "dataset"
    /\ \E i, j \in 1..3 : i < j /\ orders[i] = orders[j] /\ orders[i].username = "simuser"

(***************************************************************************)
(* C19: insertion is stable: records with equal timestamps appear in the   *)
(* store in the order in which they were inserted, records loaded at       *)
(* construction before later inserted ones.  Each insertOrder call leaves  *)
(* the earlier records in their order and puts the new record after every  *)
(* stored record whose timestamp is not greater than its own.              *)
(***************************************************************************)
C19_StableInsertion ==
    [][IsInsertStep =>
           \E k \in 1..Len(orders') :
               /\ orders' = SubSeq(orders, 1, k - 1) \o <<Inserted>>
                                \o SubSeq(orders, k, Len(orders))
               /\ \A i \in 1..(k - 1) : ~StrLess(Inserted.timestamp, orders[i].timestamp)
               /\ \A i \in k..Len(orders) : StrLess(Inserted.timestamp, orders[i].timestamp)]_vars

(***************************************************************************)
(* C20: getOrders(side, product, timestamp) returns exactly the stored     *)
(* records whose side, product and timestamp all equal the arguments, each *)
(* once and in storage order, and an empty sequence when none match.       *)
(***************************************************************************)
QuerySides == Sides \cup {"asksale"}

QueryProducts == Products \cup {"DOGE/BTC"}

QueryTimes == Times \cup {EmptyString, <<3>>}

Matching(type, product, timestamp) ==
    { i \in 1..Len(orders) : /\ orders[i].orderType = type
                             /\ orders[i].product = product
                             /\ orders[i].timestamp = timestamp }

C20_GetOrders ==
    \A type \in QuerySides, product \in QueryProducts, timestamp \in QueryTimes :
        LET got == getOrders(orders, type, product, timestamp)
            M == Matching(type, product, timestamp)
        IN  /\ Len(got) = Cardinality(M)
            /\ \A k \in 1..Len(got) :
                   got[k] = orders[CHOOSE i \in M : Cardinality({ j \in M : j <= i }) = k]
            /\ (M = {}) => got = <<>>

\* Two asks of ETH/BTC at one timestamp, of the files and of the user, stored next
\* to an ask of the other product at that timestamp: the query returns the two.
C20_Witness ==
    LET got == getOrders(orders, "ask", "ETH/BTC", T1)
    IN  /\ Len(orders) = 3
        /\ \A i \in 1..3 : orders[i].timestamp = T1 /\ orders[i].orderType = "ask"
        /\ \E i \in 1..3 : orders[i].product = "BTC/USDT"
        /\ Len(got) = 2
        /\ got[1].username # got[2].username
        /\ getOrders(orders, "bid", "ETH/BTC", T1) = <<>>

(***************************************************************************)
(* C21: getTradesPerProduct maps each product to the number of records     *)
(* stored for it (any side), the counts sum to the store size, and no      *)
(* product's count decreases from one call to the next, over any sequence  *)
(* of insertOrder and matchAsksToBids calls.                               *)
(***************************************************************************)
RECURSIVE HandedFor(_, _)
HandedFor(p, B) ==
    IF B = EmptyBag THEN 0
    ELSE LET e == CHOOSE x \in BagToSet(B) : TRUE
         IN  (IF e.product = p THEN CopiesIn(e, B) ELSE 0)
                 + HandedFor(p, [x \in BagToSet(B) \ {e} |-> B[x]])

RECURSIVE SumCounts(_, _)
SumCounts(counts, S) ==
    IF S = {} THEN 0
    ELSE LET p == CHOOSE x \in S : TRUE IN counts[p] + SumCounts(counts, S \ {p})

CountsAgree(counts, store, handed) ==
    /\ DOMAIN counts = { e.product : e \in BagToSet(handed) }
    /\ \A p \in DOMAIN counts : counts[p] = HandedFor(p, handed)
    /\ SumCounts(counts, DOMAIN counts) = Len(store)

C21_TradeCounts ==
    [][/\ CountsAgree(getTradesPerProduct(orders), orders, loaded)
       /\ CountsAgree(getTradesPerProduct(orders'), orders', loaded')
       /\ \A p \in DOMAIN getTradesPerProduct(orders) :
              /\ p \in DOMAIN getTradesPerProduct(orders')
              /\ getTradesPerProduct(orders')[p] >= getTradesPerProduct(orders)[p]]_vars

\* A caller holds a match result while the store counts two records of one
\* product, one of them inserted, and one of the other.
C21_Witness ==
    /\ Matched
    /\ \E i \in 1..Len(orders) : orders[i].username = "simuser"
    /\ DOMAIN getTradesPerProduct(orders) = Products
    /\ getTradesPerProduct(orders)["ETH/BTC"] = 2
    /\ getTradesPerProduct(orders)["BTC/USDT"] = 1

(***************************************************************************)
(* Simulation vocabulary.  A step of gotoNextTimeframe is one that counts  *)
(* a tick; every other step of SpecSim is one of enterAsk or enterBid.     *)
(* Affordable: the wallet holds what the order needs, an ask its amount of *)
(* the base currency, a bid amount * price of the quote currency.          *)
(***************************************************************************)
IsGotoStep == ticks' # ticks

IsPair(product) == product \in {"ETH/BTC", "BTC/USDT"}

BaseOf(product) == IF product = "ETH/BTC" THEN "ETH" ELSE "BTC"

QuoteOf(product) == IF product = "ETH/BTC" THEN "BTC" ELSE "USDT"

Affordable(w, order) ==
    /\ IsPair(order.product)
    /\ order.orderType = "ask" =>
           /\ BaseOf(order.product) \in DOMAIN w
           /\ w[BaseOf(order.product)] >= order.amount
    /\ order.orderType = "bid" =>
           /\ QuoteOf(order.product) \in DOMAIN w
           /\ w[QuoteOf(order.product)] >= order.amount * order.price

UserOrders == { i \in 1..Len(orders) : orders[i].username = "simuser" }

(***************************************************************************)
(* C22: an order entered through enterAsk or enterBid is inserted only if  *)
(* the wallet could fulfil it at that moment; when the check fails or the  *)
(* input is malformed, the store and the wallet are unchanged (the wallet  *)
(* is unchanged by every enterAsk and enterBid).                           *)
(***************************************************************************)
C22_ValidationPrecedesInsertion ==
    [][~IsGotoStep =>
           /\ wallet' = wallet
           /\ IsInsertStep =>
                  /\ Inserted.username = "simuser"
                  /\ Affordable(wallet, Inserted)
                  /\ said' \in {"Ask placed.", "Bid placed."}
           /\ (orders' # orders) => IsInsertStep
           /\ (said' \in {"Bad input", "Error parsing input.", "Insufficient funds."}
                   \/ pc' = "crashed") => orders' = orders]_vars

\* An accepted user order is stored and the entry after it was refused.
C22_Witness ==
    /\ UserOrders # {}
    /\ said = "Insufficient funds."
    /\ ticks = 0

(***************************************************************************)
(* Unfilled quantity of working ask i and of working bid j when the call   *)
(* returns: the original amount minus the amounts traded against it.       *)
(***************************************************************************)
UnfilledAsk(i) == run.out.asks0[i].amount - TradedOnAsk(i, Len(Sales))

UnfilledBid(j) == run.out.bids0[j].amount - TradedOnBid(j, Len(Sales))

(***************************************************************************)
(* C23: when matchAsksToBids returns there is no ask and bid of the        *)
(* product and timestamp with bid.price >= ask.price that both have        *)
(* unfilled quantity greater than 0; an ask that traded and was left with  *)
(* a remainder was taken to every bid after the one it first traded with.  *)
(***************************************************************************)
C23_NoCrossingRemainder ==
    Matched =>
        /\ \A i \in 1..Len(run.out.asks0), j \in 1..Len(run.out.bids0) :
               (run.out.bids0[j].price >= run.out.asks0[i].price)
                   => ~(UnfilledAsk(i) > 0 /\ UnfilledBid(j) > 0)
        /\ \A k \in 1..Len(Sales) :
               UnfilledAsk(run.out.legs[k].ask) > 0 =>
                   \A j \in (run.out.legs[k].bid)..Len(run.out.bids0) :
                       (run.out.bids0[j].price >= run.out.asks0[run.out.legs[k].ask].price)
                           => UnfilledBid(j) = 0

\* A call that left a partly filled ask and an unfilled bid priced below it.
C23_Witness ==
    /\ Matched
    /\ \E i \in 1..Len(run.out.asks0), j \in 1..Len(run.out.bids0) :
           /\ TradedOnAsk(i, Len(Sales)) > 0
           /\ UnfilledAsk(i) > 0
           /\ UnfilledBid(j) > 0
           /\ run.out.bids0[j].price < run.out.asks0[i].price

(***************************************************************************)
(* The orders charged by the step: the settled history's growth.           *)
(***************************************************************************)
SettledNow == BagToSet(settled' (-) settled)

UserOrderAt(store, timestamp) ==
    \E i \in 1..Len(store) :
        store[i].username = "simuser" /\ store[i].timestamp = timestamp

(***************************************************************************)
(* C24: a gotoNextTimeframe step leaves the store as it is and moves the   *)
(* time cursor to getNextTime of the current timestamp; it changes the     *)
(* wallet only by processing sales carrying the user marker, each          *)
(* generated from a user order stored at the current timestamp; when no    *)
(* user order is stored at the current timestamp the wallet is unchanged.  *)
(***************************************************************************)
C24_SettlementOnlyOfUserTrades ==
    [][IsGotoStep =>
          /\ orders' = orders
          /\ currentTime' = getNextTime(orders, currentTime)
          /\ \A r \in SettledNow :
                 /\ r.username = "simuser"
                 /\ r.timestamp = currentTime
                 /\ \E i \in 1..Len(orders) : orders[i] = r
          /\ (wallet' # wallet) => (SettledNow # {})
          /\ ~UserOrderAt(orders, currentTime) => (wallet' = wallet)]_vars

\* A step has settled a user order that traded with an order of the dataset,
\* and the cursor has moved on.
C24_Witness ==
    /\ ticks > 0
    /\ settled # EmptyBag
    /\ wallet # insertCurrency(Wallet, "BTC", InitialBTC)
    /\ \E i \in 1..Len(orders) :
           orders[i].username = "dataset" /\ orders[i].timestamp # currentTime

(***************************************************************************)
(* C25: over any sequence of enterAsk, enterBid and gotoNextTimeframe      *)
(* steps, the total amount of the user-tagged sales the wallet processed   *)
(* for one user order never exceeds that order's amount (taken once for    *)
(* each stored copy of the order).                                         *)
(***************************************************************************)
C25_SettledAtMostOnce ==
    \A r \in BagToSet(settled) :
        CopiesIn(r, settled)
            <= r.amount * Cardinality({ i \in 1..Len(orders) : orders[i] = r })

(***************************************************************************)
(* C26: every currency balance of the wallet is >= 0.                      *)
(***************************************************************************)
C26_BalancesNonNegative == \A c \in DOMAIN wallet : wallet[c] >= 0

(***************************************************************************)
(* C27: when every ask and bid of the call has amount > 0, every sale      *)
(* returned by matchAsksToBids has amount > 0, and the bid of each sale    *)
(* had a positive amount left when the sale was made.                      *)
(***************************************************************************)
C27_PositiveTradeAmounts ==
    (/\ Matched
     /\ \A i \in 1..Len(run.out.asks0) : run.out.asks0[i].amount > 0
     /\ \A j \in 1..Len(run.out.bids0) : run.out.bids0[j].amount > 0)
        => \A k \in 1..Len(Sales) :
               /\ Sales[k].amount > 0
               /\ run.out.trace[k].bids[run.out.legs[k].bid].amount > 0

\* A later ask passed over a crossing bid that an earlier sale had exhausted,
\* and traded with a bid behind it.
C27_Witness ==
    /\ Matched
    /\ \E k1 \in 1..Len(Sales), k2 \in 1..Len(Sales) :
           /\ k1 < k2
           /\ run.out.legs[k1].ask < run.out.legs[k2].ask
           /\ run.out.legs[k1].bid < run.out.legs[k2].bid
           /\ run.out.trace[k2].bids[run.out.legs[k1].bid].amount = 0
           /\ run.out.bids0[run.out.legs[k1].bid].price
                  >= run.out.asks0[run.out.legs[k2].ask].price

(***************************************************************************)
(* The calls whose asks and bids all have amount > 0, and whether the k-th *)
(* sale left its ask or its bid with nothing unfilled.                     *)
(***************************************************************************)
PositiveInputs ==
    /\ \A i \in 1..Len(run.out.asks0) : run.out.asks0[i].amount > 0
    /\ \A j \in 1..Len(run.out.bids0) : run.out.bids0[j].amount > 0

ConsumesOne(k) ==
    \/ run.out.asks0[run.out.legs[k].ask].amount = TradedOnAsk(run.out.legs[k].ask, k)
    \/ run.out.bids0[run.out.legs[k].bid].amount = TradedOnBid(run.out.legs[k].bid, k)

Max(a, b) == IF a >= b THEN a ELSE b

(***************************************************************************)
(* C28 as stated: with amounts > 0, every sale fully consumes its ask or   *)
(* its bid, and a call over n asks and m bids returns at most n + m - 1    *)
(* sales.                                                                  *)
(***************************************************************************)
C28_AtMostNPlusMMinusOne ==
    (Matched /\ PositiveInputs) =>
        /\ \A k \in 1..Len(Sales) : ConsumesOne(k)
        /\ Len(Sales) <= Len(run.out.asks0) + Len(run.out.bids0) - 1

(***************************************************************************)
(* C28, amended: with amounts > 0, every sale fully consumes its ask or    *)
(* its bid, and a call over n asks and m bids returns at most              *)
(* max(n + m - 1, 0) sales: none when n = 0 or m = 0.                      *)
(***************************************************************************)
C28_BoundedTrades ==
    (Matched /\ PositiveInputs) =>
        /\ \A k \in 1..Len(Sales) : ConsumesOne(k)
        /\ Len(Sales) <= Max(Len(run.out.asks0) + Len(run.out.bids0) - 1, 0)
        /\ (Len(run.out.asks0) = 0 \/ Len(run.out.bids0) = 0) => Len(Sales) = 0

\* A call over two asks and two bids that returned three sales.
C28_Witness ==
    /\ Matched
    /\ Len(run.out.asks0) = 2
    /\ Len(run.out.bids0) = 2
    /\ Len(Sales) = 3

(***************************************************************************)
(* C29: in the sequence of sales one matchAsksToBids call returns the      *)
(* prices never decrease (the asks are taken cheapest first, one after the *)
(* other), and the bids matched with one ask follow each other in the      *)
(* sorted order with prices that never increase (highest bid first).       *)
(***************************************************************************)
C29_PricePriorityOrder ==
    Matched =>
        \A k1 \in 1..Len(Sales), k2 \in 1..Len(Sales) :
            (k1 < k2) =>
                /\ Sales[k1].price <= Sales[k2].price
                /\ run.out.legs[k1].ask <= run.out.legs[k2].ask
                /\ (run.out.legs[k1].ask = run.out.legs[k2].ask) =>
                       /\ run.out.legs[k1].bid < run.out.legs[k2].bid
                       /\ run.out.bids0[run.out.legs[k1].bid].price
                              >= run.out.bids0[run.out.legs[k2].bid].price

\* A call one ask of which traded with a bid and then with a lower-priced bid.
C29_Witness ==
    /\ Matched
    /\ \E k1 \in 1..Len(Sales), k2 \in 1..Len(Sales) :
           /\ k1 < k2
           /\ run.out.legs[k1].ask = run.out.legs[k2].ask
           /\ run.out.bids0[run.out.legs[k1].bid].price
                  > run.out.bids0[run.out.legs[k2].bid].price

\* A call whose sales rose in price from one ask to the next.
C29_RisingPrices ==
    /\ Matched
    /\ \E k1 \in 1..Len(Sales), k2 \in 1..Len(Sales) :
           k1 < k2 /\ Sales[k1].price < Sales[k2].price

(***************************************************************************)
(* C30: from construction on a non-empty store on, through every enterAsk, *)
(* enterBid and gotoNextTimeframe step, currentTime is the timestamp of at *)
(* least one stored record, and every user order is stored at a timestamp  *)
(* of the dataset, which the time cursor reaches in its cycle.             *)
(***************************************************************************)
C30_CurrentTimeIsStored ==
    /\ currentTime \in StoredTimes
    /\ \A i \in UserOrders : orders[i].timestamp \in csvTimes

\* The cursor has gone round a store of two timestamps and stands at a
\* timestamp holding an order of the user.
C30_Witness ==
    /\ ticks >= 2
    /\ Cardinality(StoredTimes) = 2
    /\ currentTime = getEarliestTime(orders)
    /\ \E i \in UserOrders : orders[i].timestamp = currentTime

====
